---- MODULE Spec2Model ----
(***************************************************************************)
(* The grid-maze visualizer of j-artur/pathfinding, in its two variants:   *)
(*   "App"      src/src/App.tsx       findPath is synchronous and returns  *)
(*                                    the path, which walk() then reveals  *)
(*                                    with one setTimeout per tile;        *)
(*   "part_000" src/unnamed/part_000  findPath is async, sleeps between    *)
(*                                    expansions and reveals as it unwinds.*)
(* A position is <<x, y>>; the tile matrix is a function from the row y to *)
(* a function from the column x to a tile, both 0-indexed as in the code.  *)
(***************************************************************************)
EXTENDS Integers, Sequences, FiniteSets, TLC

\* Largest width / height the user types into the dimension inputs.
MaxWidth == 3
MaxHeight == 2
\* Most walls on the grid the session starts from.
MaxWalls == 2
\* Most user events (clicks, drops, paints, inputs) of one session on the
\* largest grids; timer callbacks are not counted. Sessions on grids one column
\* narrower have one event more (InitDeep).
MaxEvents == 2

Variants == {"App", "part_000"}

Tile == {"Empty", "Visited", "Wall", "Player", "Goal", "Path", "ReachedGoal"}

Unset == <<"Unset">>
Holding == <<"Holding">>

VARIABLES
  variant,     \* which of the two source files is running
  width,       \* signal width()
  height,      \* signal height()
  state,       \* the store: [width, height, tiles]
  player,      \* signal player(): Unset, Holding or <<"Set", pos>>
  goal,        \* signal goal()
  isRunning,   \* signal isRunning()
  isGridUsed,  \* signal isGridUsed() (App) / isUsingGrid() (part_000)
  steps,       \* part_000: signal steps(); App: the array findPath returned
  visited,     \* part_000: signal visited(); App: findPath's local set at return
  timers,      \* pending timer callbacks, one record per chain
  lastOp,      \* the event processed last
  events,      \* user events processed so far
  limit,       \* user events the session has in all
  resets,      \* Reset grid clicks in a row that the last event completes
  observe,     \* whether the session records shuffle results and the run before
  prev,        \* the last run that finished before the most recent one (history)
  run          \* what is known of the most recent run (history)

vars == <<variant, width, height, state, player, goal, isRunning, isGridUsed,
          steps, visited, timers, lastOp, events, limit, resets, observe, prev, run>>

----------------------------------------------------------------------------
\* Helpers

Range(s) == {s[i] : i \in DOMAIN s}

Abs(n) == IF n < 0 THEN -n ELSE n

Manhattan(p, q) == Abs(p[1] - q[1]) + Abs(p[2] - q[2])

\* set(arr, idx, t) with t a value: a copy of arr with arr[idx] replaced; an
\* index outside the array leaves the copy equal to arr.
set(arr, idx, t) == [i \in DOMAIN arr |-> IF i = idx THEN t ELSE arr[i]]

\* shuffle sorts with a random comparator: any permutation can come out.
shuffle(arr) == {[i \in DOMAIN arr |-> arr[f[i]]] : f \in Permutations(DOMAIN arr)}

\* neighbors4 with its last entry a copy of the third ([x, y - 1] twice)
neighbors4Dup(p) ==
  << <<p[1] - 1, p[2]>>, <<p[1] + 1, p[2]>>, <<p[1], p[2] - 1>>, <<p[1], p[2] - 1>> >>

neighbors4(p) ==
  << <<p[1] - 1, p[2]>>, <<p[1] + 1, p[2]>>, <<p[1], p[2] - 1>>, <<p[1], p[2] + 1>> >>

neighbors(p) == shuffle(neighbors4(p))

\* emptyTiles sized by the store's width and height instead of the signals
emptyTilesOfStore ==
  [y \in 0..(state.height - 1) |-> [x \in 0..(state.width - 1) |-> "Empty"]]

emptyTiles == [y \in 0..(height - 1) |-> [x \in 0..(width - 1) |-> "Empty"]]

\* getTile that takes the column just past the right edge for an Empty tile
getTileOffByOne(t, p) ==
  IF p[2] \in DOMAIN t /\ p[1] \in DOMAIN t[p[2]] THEN t[p[2]][p[1]]
  ELSE IF p[2] \in DOMAIN t /\ p[1] = Cardinality(DOMAIN t[p[2]]) THEN "Empty"
  ELSE "Wall"

\* state.tiles[y]?.[x] ?? Tile.Wall, on the tile matrix t
getTile(t, p) ==
  IF p[2] \in DOMAIN t /\ p[1] \in DOMAIN t[p[2]] THEN t[p[2]][p[1]] ELSE "Wall"

\* App.tsx reads state.tiles[y]! and maps it: a row that does not exist throws.
\* part_000 maps the rows and never throws.
setTileThrows(t, p) == variant = "App" /\ p[2] \notin DOMAIN t

setTile(t, p, v) ==
  IF p[2] \in DOMAIN t THEN set(t, p[2], set(t[p[2]], p[1], v)) ELSE t

allowed(t, p) == getTile(t, p) # "Wall" /\ getTile(t, p) # "Player"

IsSet(item) == item[1] = "Set"

\* the marker check without its goal half
MarkersSetPlayerOnly == IsSet(player)

\* player()[0] !== 'Set' || goal()[0] !== 'Set', negated
MarkersSet == IsSet(player) /\ IsSet(goal)

\* resetGrid with its two stamps in the other order
resetGridPlayerLast ==
  LET t0 == emptyTiles
      gThrows == IsSet(goal) /\ setTileThrows(t0, goal[2])
      t1 == IF IsSet(goal) /\ ~gThrows THEN setTile(t0, goal[2], "Goal") ELSE t0
      pThrows == IsSet(player) /\ setTileThrows(t1, player[2])
  IN  IF gThrows \/ ~IsSet(player) \/ pThrows THEN t1 ELSE setTile(t1, player[2], "Player")

\* The tiles resetGrid leaves: a fresh Empty matrix, then the Player stamp, then
\* the Goal stamp; a stamp that throws ends the handler there.
resetGrid ==
  LET t0 == emptyTiles
      pThrows == IsSet(player) /\ setTileThrows(t0, player[2])
      t1 == IF IsSet(player) /\ ~pThrows THEN setTile(t0, player[2], "Player") ELSE t0
      gThrows == IsSet(goal) /\ setTileThrows(t1, goal[2])
  IN  IF pThrows \/ ~IsSet(goal) \/ gThrows THEN t1 ELSE setTile(t1, goal[2], "Goal")

InBounds(t, p) == p[2] \in DOMAIN t /\ p[1] \in DOMAIN t[p[2]]

Cells(t) == {p \in (0..(MaxWidth + 1)) \X (0..(MaxHeight + 1)) : InBounds(t, p)}

----------------------------------------------------------------------------
\* The search

\* The shuffle results of neighbors(start) as far as the search can tell them
\* apart: the neighbours inside the grid, in shuffled order (getTile reports
\* the others Wall whatever the tiles are, so the filter always drops them).
Draws(t, start) == {SelectSeq(n, LAMBDA p : InBounds(t, p)) : n \in neighbors(start)}

\* .filter(p => allowed(p) && !visited.has(pos(p))) of the shuffle result d
MovesOf(t, vis, d) == SelectSeq(d, LAMBDA p : allowed(t, p) /\ p \notin vis)

\* neighbors(start).filter(...): one candidate list per shuffle result
Moves(t, vis, start) == {MovesOf(t, vis, d) : d \in Draws(t, start)}

\* App.tsx findPathHelp, with steps = [] as findPath passes it: the set of
\* [found, visited, calls, draws] it can return over all shuffle results, calls
\* being the positions findPathHelp was called with and draws the shuffle
\* results it got, both in call order. reduceA is the
\* moves.reduce(...) from candidate i on with accumulator s; it recurses into
\* every candidate, whatever the earlier ones returned.
RECURSIVE findPathHelpA(_, _, _)
RECURSIVE reduceA(_, _, _, _, _)
findPathHelpA(t, vis, start) ==
  IF getTile(t, start) = "Goal"
  THEN {[found |-> <<start>>, visited |-> vis, calls |-> <<start>>, draws |-> <<>>]}
  ELSE UNION {LET moves == MovesOf(t, vis, d)
              IN  {[q EXCEPT !.calls = <<start>> \o @, !.draws = <<d>> \o @] :
                     q \in reduceA(t, vis \cup Range(moves), moves, 1, <<>>)}
              : d \in Draws(t, start)}

reduceA(t, vis, moves, i, s) ==
  IF i > Len(moves)
  THEN {[found |-> s, visited |-> vis, calls |-> <<>>, draws |-> <<>>]}
  ELSE UNION {{[q EXCEPT !.calls = r.calls \o @, !.draws = r.draws \o @] :
                 q \in reduceA(t, r.visited, moves, i + 1,
                               IF Len(r.found) # 0 THEN <<moves[i]>> \o r.found ELSE s)}
              : r \in findPathHelpA(t, vis, moves[i])}

\* part_000 findPathHelp runs in segments separated by its two sleeps. A frame
\* is one activation: [start, moves, i, pc], pc = "sleep92" (line 92),
\* "await96" (awaiting the call for moves[i], line 96) or "sleep97" (line 97).
\* The top of the stack is its last element. callB is the code from the entry
\* of findPathHelp(p) to its first suspension; returnB hands the result b of a
\* finished activation to its caller and runs the caller to its next
\* suspension. Both give the set of [stack, done, found, drawn] that can
\* result, drawn holding the shuffle result the segment got, if it got one.
RECURSIVE callB(_, _, _, _)
RECURSIVE returnB(_, _, _, _)
callB(t, vis, stk, p) ==
  IF getTile(t, p) = "Goal"
  THEN returnB(t, vis, stk, TRUE)
  ELSE {[stack |-> Append(stk, [start |-> p, moves |-> MovesOf(t, vis, d), i |-> 0,
                                pc |-> "sleep92"]),
         done |-> FALSE, found |-> FALSE, drawn |-> <<d>>] : d \in Draws(t, p)}

returnB(t, vis, stk, b) ==
  IF stk = <<>>
  THEN {[stack |-> <<>>, done |-> TRUE, found |-> b, drawn |-> <<>>]}
  ELSE LET n == Len(stk)
           f == stk[n]
       IN  IF b
           THEN {[stack |-> [stk EXCEPT ![n].pc = "sleep97"], done |-> FALSE, found |-> FALSE,
                  drawn |-> <<>>]}
           ELSE IF f.i < Len(f.moves)
                THEN callB(t, vis, [stk EXCEPT ![n].i = f.i + 1], f.moves[f.i + 1])
                ELSE returnB(t, vis, SubSeq(stk, 1, n - 1), FALSE)

\* The position findPathHelp was called with in the segment that callB or a
\* returnB(.., FALSE) ended with c: the activation a new frame stands for, or
\* the Goal tile whose call sent the top frame to line 97; none when the
\* search is over. (A segment makes at most one call: a call either returns
\* at once on the Goal tile, which suspends its caller, or suspends itself.)
CalledB(c) ==
  IF c.done
  THEN <<>>
  ELSE LET f == c.stack[Len(c.stack)]
       IN  IF f.pc = "sleep92" THEN <<f.start>> ELSE <<f.moves[f.i]>>

\* visit(p) for every p of moves from index i on: [tiles, visited] afterwards
RECURSIVE visitAll(_, _, _, _)
visitAll(t, vis, moves, i) ==
  IF i > Len(moves)
  THEN [tiles |-> t, visited |-> vis]
  ELSE LET p == moves[i]
       IN  IF p \in vis
           THEN visitAll(t, vis, moves, i + 1)
           ELSE visitAll(IF getTile(t, p) # "Goal" THEN setTile(t, p, "Visited") ELSE t,
                         vis \cup {p}, moves, i + 1)

\* step(p): the tiles afterwards (steps is appended to by the caller)
stepTiles(t, p) == IF getTile(t, p) # "Goal" THEN setTile(t, p, "Path") ELSE t

\* walk's reveal of one position
revealTiles(t, p) ==
  IF getTile(t, p) # "Goal" THEN setTile(t, p, "Path") ELSE setTile(t, p, "ReachedGoal")

----------------------------------------------------------------------------
\* History of the most recent run

\* phase, start, goal: of the run; tiles: the grid the search started on;
\* enclosed, dirty: of the grid at the click; found: the search's result;
\* edited: a tile or marker event came while the run was in flight;
\* expanded: the positions findPathHelp has been called with; twice: one of
\* them more than once; hit: a call found the Goal tile and returned success;
\* late: a call was made after that; draws: the shuffle results the search
\* got, in call order (recorded in sessions that observe them).
NoRun == [phase |-> "none", start |-> <<0, 0>>, goal |-> <<0, 0>>, tiles |-> <<>>,
          enclosed |-> FALSE, found |-> FALSE, edited |-> FALSE, dirty |-> FALSE,
          expanded |-> {}, twice |-> FALSE, hit |-> FALSE, late |-> FALSE, draws |-> <<>>]

\* a tile a run has left behind
Leftover(t) == \E p \in Cells(t) : getTile(t, p) \in {"Visited", "Path", "ReachedGoal"}

\* every 4-neighbour of p is Wall or out of bounds
Enclosed(t, p) == \A q \in Range(neighbors4(p)) : getTile(t, q) = "Wall"

NewRun(t0, t, ph, fnd) ==
  [phase |-> ph, start |-> player[2], goal |-> IF IsSet(goal) THEN goal[2] ELSE <<0, 0>>,
   tiles |-> t, enclosed |-> IsSet(goal) /\ Enclosed(t0, goal[2]), found |-> fnd,
   edited |-> FALSE, dirty |-> Leftover(t0), expanded |-> {}, twice |-> FALSE, hit |-> FALSE,
   late |-> FALSE, draws |-> <<>>]

\* the record after the calls of the sequence c, made in that order on tiles t
RECURSIVE Logged(_, _, _, _)
Logged(r, t, c, i) ==
  IF i > Len(c)
  THEN r
  ELSE Logged([r EXCEPT !.expanded = @ \cup {c[i]},
                        !.twice = @ \/ c[i] \in r.expanded,
                        !.hit = @ \/ getTile(t, c[i]) = "Goal",
                        !.late = @ \/ r.hit],
              t, c, i + 1)

\* the record after the shuffle results d
Drawn(r, d) == IF observe THEN [r EXCEPT !.draws = @ \o d] ELSE r

\* What is kept of a finished run when its record is dropped: the grid and
\* start of its search, its shuffle results, and what it left in steps,
\* visited and the tiles.
NoPrev == [valid |-> FALSE, tiles |-> <<>>, start |-> <<0, 0>>, draws |-> <<>>,
           edited |-> FALSE, steps |-> <<>>, visited |-> {}, after |-> <<>>]

Kept ==
  IF observe /\ run.phase = "done"
  THEN [valid |-> TRUE, tiles |-> run.tiles, start |-> run.start, draws |-> run.draws,
        edited |-> run.edited, steps |-> steps, visited |-> visited, after |-> state.tiles]
  ELSE prev

\* A user event other than an accepted Run: while a run is in flight an edit of
\* tiles or markers is noted; after the run the record is dropped.
AfterUserEvent(edit) ==
  IF run.phase = "active"
  THEN [run EXCEPT !.edited = @ \/ edit]
  ELSE NoRun

\* every user event counts against the session's budget; the event's action
\* sets lastOp' before it
UserEvent ==
  /\ events < limit
  /\ events' = events + 1
  /\ resets' = IF lastOp' = "ResetGrid" THEN resets + 1 ELSE 0
  /\ prev' = Kept
  /\ UNCHANGED <<limit, observe>>

----------------------------------------------------------------------------
\* State

\* The session starts from a grid the user has set up: any size up to W x H,
\* markers Unset, Holding or dropped on different cells, up to MaxWalls walls
\* painted on the other cells, no run made yet, L user events to come. With
\* erasable, the tile under the Set Player marker may have been erased (the
\* Goal was dropped on it and cleared with Reset Goal before the session).
InitCells == (0..(width - 1)) \X (0..(height - 1))

InitTiles(walls, erased) ==
  [y \in 0..(height - 1) |-> [x \in 0..(width - 1) |->
     IF IsSet(player) /\ player[2] = <<x, y>> THEN (IF erased THEN "Empty" ELSE "Player")
     ELSE IF IsSet(goal) /\ goal[2] = <<x, y>> THEN "Goal"
     ELSE IF <<x, y>> \in walls THEN "Wall" ELSE "Empty"]]

Setup(W, H, L, erasable) ==
  /\ variant \in Variants
  /\ width \in 1..W
  /\ height \in 1..H
  /\ player \in {Unset, Holding} \cup {<<"Set", p>> : p \in InitCells}
  /\ goal \in {Unset, Holding} \cup {<<"Set", p>> : p \in InitCells}
  /\ IsSet(player) /\ IsSet(goal) => player[2] # goal[2]
  /\ \E walls \in SUBSET InitCells, erased \in {FALSE, erasable /\ IsSet(player)} :
       /\ Cardinality(walls) <= MaxWalls
       /\ IsSet(player) => player[2] \notin walls
       /\ IsSet(goal) => goal[2] \notin walls
       /\ state = [width |-> width, height |-> height, tiles |-> InitTiles(walls, erased)]
  /\ limit = L
  /\ isRunning = FALSE
  /\ isGridUsed = FALSE
  /\ steps = <<>>
  /\ visited = {}
  /\ timers = <<>>
  /\ lastOp = "App"
  /\ events = 0
  /\ resets = 0
  /\ prev = NoPrev
  /\ run = NoRun

\* sessions on grids up to MaxWidth x MaxHeight with MaxEvents user events
Init == Setup(MaxWidth, MaxHeight, MaxEvents, FALSE) /\ observe = FALSE

\* longer sessions on smaller grids, the Player tile possibly erased
InitDeep == Setup(MaxWidth - 1, MaxHeight, MaxEvents + 1, TRUE) /\ observe = FALSE

\* the longer sessions, with the shuffle results and the run before on record
InitTwoRuns == Setup(MaxWidth - 1, MaxHeight, MaxEvents + 1, FALSE) /\ observe = TRUE

\* a Reset grid button that is never disabled
ResetNeverDisabled == FALSE

\* a Run button disabled by the marker check alone
RunDisabledMarkersOnly == ~MarkersSet

\* a Run button that does not look at the grid-used flag
RunDisabledWhileRunning == isRunning \/ ~MarkersSet

\* disabled={isRunning()} of the Reset grid button
ResetDisabled == isRunning

\* disabled={isRunning() || player()[0] !== 'Set' || goal()[0] !== 'Set' || isGridUsed()}
RunDisabled == isRunning \/ ~MarkersSet \/ isGridUsed

Remove(s, k) == SubSeq(s, 1, k - 1) \o SubSeq(s, k + 1, Len(s))

----------------------------------------------------------------------------
\* User events

\* onInput of the Width / Height inputs
SetWidth(w) ==
  /\ w # width
  /\ width' = w
  /\ lastOp' = "SetWidth"
  /\ UserEvent
  /\ run' = AfterUserEvent(FALSE)
  /\ UNCHANGED <<variant, height, state, player, goal, isRunning, isGridUsed, steps,
                 visited, timers>>

SetHeight(h) ==
  /\ h # height
  /\ height' = h
  /\ lastOp' = "SetHeight"
  /\ UserEvent
  /\ run' = AfterUserEvent(FALSE)
  /\ UNCHANGED <<variant, width, state, player, goal, isRunning, isGridUsed, steps,
                 visited, timers>>

\* handleMouse over the cell p with e.buttons = b (1: left, 2: right)
handleMouse(p, b) ==
  /\ p \in Cells(state.tiles)
  /\ LET tile == getTile(state.tiles, p)
     IN  state' = IF player = Holding \/ goal = Holding \/ tile = "Player" \/ tile = "Goal"
                  THEN state
                  ELSE [state EXCEPT !.tiles = setTile(@, p, IF b = 1 THEN "Wall" ELSE "Empty")]
  /\ lastOp' = "handleMouse"
  /\ UserEvent
  /\ run' = AfterUserEvent(TRUE)
  /\ UNCHANGED <<variant, width, height, player, goal, isRunning, isGridUsed, steps,
                 visited, timers>>

\* onMouseDown of the player / goal handle, shown while the marker is not Set
HoldPlayer ==
  /\ ~IsSet(player)
  /\ player' = Holding
  /\ lastOp' = "HoldPlayer"
  /\ UserEvent
  /\ run' = AfterUserEvent(FALSE)
  /\ UNCHANGED <<variant, width, height, state, goal, isRunning, isGridUsed, steps,
                 visited, timers>>

HoldGoal ==
  /\ ~IsSet(goal)
  /\ goal' = Holding
  /\ lastOp' = "HoldGoal"
  /\ UserEvent
  /\ run' = AfterUserEvent(FALSE)
  /\ UNCHANGED <<variant, width, height, state, player, isRunning, isGridUsed, steps,
                 visited, timers>>

\* the mouseup listener, released over the cell p of the grid (a release
\* outside the grid returns early and leaves the marker Holding)
DropPlayer(p) ==
  /\ player = Holding
  /\ p \in Cells(state.tiles)
  /\ state' = [state EXCEPT !.tiles = setTile(@, p, "Player")]
  /\ player' = <<"Set", p>>
  /\ lastOp' = "DropPlayer"
  /\ UserEvent
  /\ run' = AfterUserEvent(TRUE)
  /\ UNCHANGED <<variant, width, height, goal, isRunning, isGridUsed, steps, visited, timers>>

DropGoal(p) ==
  /\ goal = Holding
  /\ p \in Cells(state.tiles)
  /\ state' = [state EXCEPT !.tiles = setTile(@, p, "Goal")]
  /\ goal' = <<"Set", p>>
  /\ lastOp' = "DropGoal"
  /\ UserEvent
  /\ run' = AfterUserEvent(TRUE)
  /\ UNCHANGED <<variant, width, height, player, isRunning, isGridUsed, steps, visited, timers>>

\* a Reset Player button that clears the marker and leaves its tile
ResetPlayerKeepsTile ==
  /\ IsSet(player)
  /\ IF setTileThrows(state.tiles, player[2])
     THEN UNCHANGED <<state, player>>
     ELSE /\ state' = state
          /\ player' = Unset
  /\ lastOp' = "ResetPlayer"
  /\ UserEvent
  /\ run' = AfterUserEvent(TRUE)
  /\ UNCHANGED <<variant, width, height, goal, isRunning, isGridUsed, steps, visited, timers>>

\* the Reset Player / Reset Goal buttons, shown while the marker is Set; a
\* setTile that throws leaves the marker Set
ResetPlayer ==
  /\ IsSet(player)
  /\ IF setTileThrows(state.tiles, player[2])
     THEN UNCHANGED <<state, player>>
     ELSE /\ state' = [state EXCEPT !.tiles = setTile(@, player[2], "Empty")]
          /\ player' = Unset
  /\ lastOp' = "ResetPlayer"
  /\ UserEvent
  /\ run' = AfterUserEvent(TRUE)
  /\ UNCHANGED <<variant, width, height, goal, isRunning, isGridUsed, steps, visited, timers>>

ResetGoal ==
  /\ IsSet(goal)
  /\ IF setTileThrows(state.tiles, goal[2])
     THEN UNCHANGED <<state, goal>>
     ELSE /\ state' = [state EXCEPT !.tiles = setTile(@, goal[2], "Empty")]
          /\ goal' = Unset
  /\ lastOp' = "ResetGoal"
  /\ UserEvent
  /\ run' = AfterUserEvent(TRUE)
  /\ UNCHANGED <<variant, width, height, player, isRunning, isGridUsed, steps, visited, timers>>

\* a click on Reset grid: ignored while the button is disabled, else resetGrid
ResetGridClick ==
  /\ lastOp' = "ResetGrid"
  /\ UserEvent
  /\ IF ResetDisabled
     THEN /\ run' = AfterUserEvent(FALSE)
          /\ UNCHANGED <<state, isGridUsed>>
     ELSE /\ state' = [width |-> width, height |-> height, tiles |-> resetGrid]
          /\ isGridUsed' = FALSE
          /\ run' = NoRun
  /\ UNCHANGED <<variant, width, height, player, goal, isRunning, steps, visited, timers>>

----------------------------------------------------------------------------
\* Run and its timers

\* a visited set that findPath does not renew
StaleVisited == visited

\* new Set<PosStr>(), the visited set findPath starts with
FreshVisited == {}

\* App.tsx, the Run handler past its marker check: findPath, then walk() if
\* the path is not empty (setRunning(true) and the first setTimeout)
RunApp ==
  \E r \in findPathHelpA(state.tiles, FreshVisited, player[2]) :
    /\ steps' = r.found
    /\ visited' = r.visited
    /\ IF Len(r.found) = 0
       THEN /\ run' = Drawn(Logged(NewRun(state.tiles, state.tiles, "done", FALSE),
                                    state.tiles, r.calls, 1), r.draws)
            /\ UNCHANGED <<state, isRunning, isGridUsed, timers>>
       ELSE /\ isGridUsed' = TRUE
            /\ isRunning' = TRUE
            /\ timers' = Append(timers, [steps |-> r.found, stack |-> <<>>])
            /\ run' = Drawn(Logged(NewRun(state.tiles, state.tiles, "active", TRUE),
                                    state.tiles, r.calls, 1), r.draws)
            /\ UNCHANGED state

\* part_000, the Run handler past its marker check: resetGrid, the two flags,
\* findPath up to its first sleep; a search that ends without sleeping clears
\* the flags in the same task
RunPart ==
  LET t == resetGrid
  IN  \E c \in callB(t, FreshVisited, <<>>, player[2]) :
        /\ state' = [width |-> width, height |-> height, tiles |-> t]
        /\ visited' = FreshVisited
        /\ steps' = <<>>
        /\ IF c.done
           THEN /\ isRunning' = FALSE
                /\ isGridUsed' = FALSE
                /\ run' = Drawn(Logged(NewRun(state.tiles, t, "done", c.found),
                                        t, <<player[2]>>, 1), c.drawn)
                /\ UNCHANGED timers
           ELSE /\ isRunning' = TRUE
                /\ isGridUsed' = TRUE
                /\ timers' = Append(timers, [steps |-> <<>>, stack |-> c.stack])
                /\ run' = Drawn(Logged(NewRun(state.tiles, t, "active", FALSE),
                                        t, <<player[2]>>, 1), c.drawn)

\* a click on Run: ignored while the button is disabled; the handler returns
\* at once unless both markers are Set
RunClick ==
  /\ lastOp' = "Run"
  /\ UserEvent
  /\ IF RunDisabled \/ ~MarkersSet
     THEN /\ run' = AfterUserEvent(FALSE)
          /\ UNCHANGED <<state, isRunning, isGridUsed, steps, visited, timers>>
     ELSE IF variant = "App" THEN RunApp ELSE RunPart
  /\ UNCHANGED <<variant, width, height, player, goal>>

\* walk without the else setRunning(false) of its last call
walkKeepsRunning(k) ==
  /\ variant = "App"
  /\ k \in DOMAIN timers
  /\ LET pos == Head(timers[k].steps)
         rest == Tail(timers[k].steps)
     IN  IF setTileThrows(state.tiles, pos)
         THEN /\ timers' = Remove(timers, k)
              /\ UNCHANGED <<state, isRunning, run>>
         ELSE /\ state' = [state EXCEPT !.tiles = revealTiles(@, pos)]
              /\ isRunning' = TRUE
              /\ IF Len(rest) # 0
                 THEN /\ timers' = [timers EXCEPT ![k].steps = rest]
                      /\ UNCHANGED run
                 ELSE /\ timers' = Remove(timers, k)
                      /\ run' = [run EXCEPT !.phase = "done"]
  /\ lastOp' = "walk"
  /\ resets' = 0
  /\ UNCHANGED <<events, limit, observe, prev>>
  /\ UNCHANGED <<variant, width, height, player, goal, isGridUsed, steps, visited>>

\* App.tsx: the setTimeout callback of walk for the chain k, and the walk()
\* it ends with; a setTile that throws ends the callback before walk()
walk(k) ==
  /\ variant = "App"
  /\ k \in DOMAIN timers
  /\ LET pos == Head(timers[k].steps)
         rest == Tail(timers[k].steps)
     IN  IF setTileThrows(state.tiles, pos)
         THEN /\ timers' = Remove(timers, k)
              /\ UNCHANGED <<state, isRunning, run>>
         ELSE /\ state' = [state EXCEPT !.tiles = revealTiles(@, pos)]
              /\ IF Len(rest) # 0
                 THEN /\ isRunning' = TRUE
                      /\ timers' = [timers EXCEPT ![k].steps = rest]
                      /\ UNCHANGED run
                 ELSE /\ isRunning' = FALSE
                      /\ timers' = Remove(timers, k)
                      /\ run' = [run EXCEPT !.phase = "done"]
  /\ lastOp' = "walk"
  /\ resets' = 0
  /\ UNCHANGED <<events, limit, observe, prev>>
  /\ UNCHANGED <<variant, width, height, player, goal, isGridUsed, steps, visited>>

\* part_000: the pending sleep of the chain k ends. After the sleep of line 92
\* the candidates are visited and the loop calls findPathHelp for the first;
\* after the sleep of line 97 step(p) runs and the activation returns true.
\* When findPath itself returns, the Run handler clears the two flags.
sleep(k) ==
  /\ variant = "part_000"
  /\ k \in DOMAIN timers
  /\ LET stk == timers[k].stack
         n == Len(stk)
         f == stk[n]
         pop == SubSeq(stk, 1, n - 1)
         v == IF f.pc = "sleep92"
              THEN visitAll(state.tiles, visited, f.moves, 1)
              ELSE [tiles |-> stepTiles(state.tiles, f.moves[f.i]), visited |-> visited]
         out == IF f.pc = "sleep92"
                THEN IF Len(f.moves) = 0
                     THEN returnB(v.tiles, v.visited, pop, FALSE)
                     ELSE callB(v.tiles, v.visited,
                                [stk EXCEPT ![n].i = 1, ![n].pc = "await96"], f.moves[1])
                ELSE returnB(v.tiles, v.visited, pop, TRUE)
     IN  /\ state' = [state EXCEPT !.tiles = v.tiles]
         /\ visited' = v.visited
         /\ steps' = IF f.pc = "sleep97" THEN Append(steps, f.moves[f.i]) ELSE steps
         /\ \E c \in out :
              LET log == Drawn(Logged(run, v.tiles,
                                      IF f.pc = "sleep92" THEN CalledB(c) ELSE <<>>, 1), c.drawn)
              IN  IF c.done
                  THEN /\ timers' = Remove(timers, k)
                       /\ isRunning' = FALSE
                       /\ isGridUsed' = FALSE
                       /\ run' = [log EXCEPT !.phase = "done", !.found = c.found]
                  ELSE /\ timers' = [timers EXCEPT ![k].stack = c.stack]
                       /\ run' = log
                       /\ UNCHANGED <<isRunning, isGridUsed>>
  /\ lastOp' = "sleep"
  /\ resets' = 0
  /\ UNCHANGED <<events, limit, observe, prev>>
  /\ UNCHANGED <<variant, width, height, player, goal>>

----------------------------------------------------------------------------

Buttons == {1, 2}

Next ==
  \/ \E w \in 1..MaxWidth : SetWidth(w)
  \/ \E h \in 1..MaxHeight : SetHeight(h)
  \/ \E p \in Cells(state.tiles), b \in Buttons : handleMouse(p, b)
  \/ HoldPlayer
  \/ HoldGoal
  \/ \E p \in Cells(state.tiles) : DropPlayer(p)
  \/ \E p \in Cells(state.tiles) : DropGoal(p)
  \/ ResetPlayer
  \/ ResetGoal
  \/ ResetGridClick
  \/ RunClick
  \/ \E k \in DOMAIN timers : walk(k)
  \/ \E k \in DOMAIN timers : sleep(k)

Spec == Init /\ [][Next]_vars

SpecDeep == InitDeep /\ [][Next]_vars

SpecTwoRuns == InitTwoRuns /\ [][Next]_vars

\* setTimeout and sleep callbacks that are due do run: a timer that stays
\* pending is eventually fired
FairSpec ==
  /\ Spec
  /\ WF_vars(\E k \in DOMAIN timers : walk(k))
  /\ WF_vars(\E k \in DOMAIN timers : sleep(k))

----------------------------------------------------------------------------
\* Vocabulary of the properties

\* The positions reachable from the positions S by 4-connected moves over
\* tiles of t that are neither Wall nor Player.
RECURSIVE Reach(_, _)
Reach(t, S) ==
  LET N == S \cup {q \in Cells(t) : /\ getTile(t, q) \notin {"Wall", "Player"}
                                   /\ \E p \in S : Manhattan(p, q) = 1}
  IN  IF N = S THEN S ELSE Reach(t, N)

GoalReachable(t, start) == \E q \in Reach(t, {start}) : getTile(t, q) = "Goal"

\* The search of the most recent run has returned: in App.tsx as soon as Run
\* was handled, in part_000 when the run is over.
SearchEnded == IF variant = "App" THEN run.phase # "none" ELSE run.phase = "done"

\* No user edit fell into the search (App.tsx searches within one task).
NoEditInSearch == variant = "App" \/ ~run.edited

NoRepeat(s) == \A i, j \in DOMAIN s : i # j => s[i] # s[j]

Connected(s) == \A i \in 1..(Len(s) - 1) : Manhattan(s[i], s[i + 1]) = 1

----------------------------------------------------------------------------
\* Properties

\* C1: whenever the Goal tile was reachable from the start over tiles that are
\* neither Wall nor Player when the search began, and no user edit fell into
\* the search, findPath reports success (a non-empty path in App.tsx, true in
\* part_000).
C1_ReachableGoalIsFound ==
  (SearchEnded /\ NoEditInSearch /\ GoalReachable(run.tiles, run.start))
    => (run.found /\ (variant = "App" => Len(steps) > 0))

\* C1 witness: a search over at least three tiles has ended with success.
C1_Witness ==
  /\ SearchEnded /\ NoEditInSearch /\ GoalReachable(run.tiles, run.start)
  /\ run.found /\ Len(steps) >= 3

\* C2 (as claimed): the path of a successful search repeats no position, moves
\* by Manhattan distance 1 and holds no tile that was Wall when the search ran.
C2_PathIsSimple ==
  (SearchEnded /\ NoEditInSearch /\ run.found)
    => /\ NoRepeat(steps)
       /\ Connected(steps)
       /\ \A p \in Range(steps) : getTile(run.tiles, p) # "Wall"

\* C3 (as claimed): when Run is requested with the markers on different tiles
\* and every 4-neighbour of the Goal tile Wall or out of bounds, the path stays
\* empty and no tile becomes Path or ReachedGoal.
C3_EnclosedGoalNoPath ==
  (run.phase # "none" /\ run.enclosed /\ run.start # run.goal)
    => /\ steps = <<>>
       /\ \A p \in Cells(state.tiles) : getTile(state.tiles, p) \notin {"Path", "ReachedGoal"}

\* C4 (as claimed): the path of a successful run with the markers on different
\* tiles leaves out the start, begins at a 4-neighbour of the start, ends at the
\* Goal position and is at least as long as their Manhattan distance.
C4_PathFromStartToGoal ==
  (SearchEnded /\ NoEditInSearch /\ run.found /\ run.start # run.goal)
    => /\ run.start \notin Range(steps)
       /\ Len(steps) >= Manhattan(run.start, run.goal)
       /\ Len(steps) > 0 => /\ Manhattan(run.start, steps[1]) = 1
                            /\ steps[Len(steps)] = run.goal

\* C5 (as claimed): when a run with a non-empty path has finished and the user
\* made no edit during it, the Goal position holds ReachedGoal and every other
\* position of the path holds Path.
C5_GoalEndsReached ==
  (run.phase = "done" /\ ~run.edited /\ Len(steps) > 0)
    => /\ getTile(state.tiles, run.goal) = "ReachedGoal"
       /\ \A p \in Range(steps) \ {run.goal} : getTile(state.tiles, p) = "Path"

\* C6: at most one run is in flight in every reachable state: there is never
\* more than one chain of reveal / search timers.
C6_OneRunInFlight == Len(timers) <= 1

\* C6 witness: Run was clicked while a run was under way (its reveal or search
\* had already advanced) and still a single chain is pending.
C6_Witness ==
  /\ lastOp = "Run" /\ isRunning /\ Len(timers) = 1
  /\ \/ variant = "App" /\ timers[1].steps # steps
     \/ variant = "part_000" /\ visited # {}

\* every tile is Empty, except that the cell of a Set marker may hold its stamp
BlankGrid ==
  \A p \in Cells(state.tiles) :
    \/ getTile(state.tiles, p) = "Empty"
    \/ IsSet(player) /\ p = player[2] /\ getTile(state.tiles, p) = "Player"
    \/ IsSet(goal) /\ p = goal[2] /\ getTile(state.tiles, p) = "Goal"

C8_NoTimerWhenResetAccepted == ~ResetDisabled => timers = <<>>

\* C8 witness: a run has revealed its path to the end; Reset is accepted again
\* and nothing is pending.
C8_Witness ==
  /\ ~ResetDisabled /\ timers = <<>>
  /\ run.phase = "done" /\ run.found /\ lastOp \in {"walk", "sleep"}

Probe == ((-1)..(MaxWidth + 1)) \X ((-1)..(MaxHeight + 1))

C10_RunWithoutMarkersIsNoOp ==
  [][(lastOp' = "Run" /\ (~IsSet(player) \/ ~IsSet(goal)))
       => UNCHANGED <<state, isRunning, isGridUsed, timers, steps, visited, player, goal>>]_vars

\* C10 witness: Run has been clicked with the goal still held, over a grid
\* with a wall on it.
C10_Witness ==
  /\ lastOp = "Run" /\ IsSet(player) /\ goal = Holding
  /\ \E p \in Cells(state.tiles) : getTile(state.tiles, p) = "Wall"

----------------------------------------------------------------------------
\* Reset grid

\* the state right after a Reset grid click that was accepted
AcceptedReset == lastOp = "ResetGrid" /\ ~isRunning

\* every Set marker lies inside the configured dimensions
MarkersInBounds ==
  /\ IsSet(player) => player[2] \in InitCells
  /\ IsSet(goal) => goal[2] \in InitCells

\* t has the configured height and width
Configured(t) ==
  /\ DOMAIN t = 0..(height - 1)
  /\ \A y \in DOMAIN t : DOMAIN t[y] = 0..(width - 1)

\* the grids resetGrid makes in the step taken: the store of an accepted
\* Reset grid click, and in part_000 the tiles the search of an accepted Run
\* starts on
FreshGrids ==
  (IF lastOp' = "ResetGrid" /\ ~isRunning THEN {state'.tiles} ELSE {})
    \cup (IF /\ lastOp' = "Run" /\ variant = "part_000"
              /\ ~isRunning /\ ~isGridUsed /\ IsSet(player) /\ IsSet(goal)
           THEN {run'.tiles} ELSE {})

\* C11 (as stated): after resetGrid, with the Set markers in bounds, the grid has
\* the configured height x width, the tile at the Set Player marker is Player,
\* the tile at the Set Goal marker is Goal and every other tile is Empty.
C11_ResetStampsEachMarker ==
  [][MarkersInBounds =>
       \A t \in FreshGrids :
         /\ Configured(t)
         /\ IsSet(player) => getTile(t, player[2]) = "Player"
         /\ IsSet(goal) => getTile(t, goal[2]) = "Goal"
         /\ \A p \in InitCells :
              ~(IsSet(player) /\ p = player[2]) /\ ~(IsSet(goal) /\ p = goal[2])
                => getTile(t, p) = "Empty"]_vars

\* C11 (amended): as above, except that where both markers are Set on one
\* cell that tile is Goal, the later of the two stamps.
C11_ResetStampsGoalOverPlayer ==
  [][MarkersInBounds =>
       \A t \in FreshGrids :
         /\ Configured(t)
         /\ \A p \in InitCells :
              getTile(t, p) = IF IsSet(goal) /\ p = goal[2] THEN "Goal"
                              ELSE IF IsSet(player) /\ p = player[2] THEN "Player"
                              ELSE "Empty"]_vars

\* Reset grid was accepted with both markers Set on one cell of the grid
C11_Witness ==
  /\ AcceptedReset
  /\ IsSet(player) /\ IsSet(goal) /\ player[2] = goal[2]
  /\ player[2] \in InitCells

----------------------------------------------------------------------------
\* Both markers on one tile

\* a Run was accepted with the Player and the Goal Set on one cell
SameTileRun == run.phase # "none" /\ run.start = run.goal

\* C12: with the Player and the Goal Set on one tile, the Run is solved with a
\* zero-length path: no position is recorded in the path, no tile is revealed
\* and nothing is left to play back, whichever marker was dropped last.
C12_SameTileRunIsTrivial ==
  SameTileRun => steps = <<>> /\ timers = <<>> /\ ~Leftover(state.tiles)

----------------------------------------------------------------------------
\* Markers and their tiles

\* the cells of the grid that hold the tile v
TilesOf(v) == {p \in Cells(state.tiles) : getTile(state.tiles, p) = v}

\* C13: in every reachable state at most one tile of the grid holds Player and
\* at most one holds Goal.
C13_OnePlayerOneGoal ==
  /\ Cardinality(TilesOf("Player")) <= 1
  /\ Cardinality(TilesOf("Goal")) <= 1

\* the Player marker has just been dropped at the end of a session of
\* MaxEvents + 1 events, next to the Goal's tile
C13_Witness ==
  /\ lastOp = "DropPlayer" /\ events = MaxEvents + 1
  /\ IsSet(goal) /\ goal[2] # player[2]
  /\ TilesOf("Player") = {player[2]} /\ TilesOf("Goal") = {goal[2]}

----------------------------------------------------------------------------
\* Reset grid, twice

\* C14: resetGrid is idempotent: a Reset grid click right after an accepted
\* Reset grid click leaves the store (width, height, tiles) and the two flags
\* exactly as the first left them.
C14_ResetTwiceIsResetOnce ==
  [][AcceptedReset /\ lastOp' = "ResetGrid"
       => state' = state /\ isGridUsed' = isGridUsed /\ isRunning' = isRunning]_vars

\* two Reset grid clicks in a row were accepted, with a marker on the grid
C14_Witness == AcceptedReset /\ resets = 2 /\ TilesOf("Player") # {} /\ TilesOf("Goal") # {}

----------------------------------------------------------------------------
\* Termination

\* C15: every run that starts eventually finishes: once isRunning is true it
\* eventually becomes false again, whatever paint and marker events come in
\* between, provided pending timer callbacks are eventually run.
C15_RunEventuallyFinishes == isRunning ~> ~isRunning

\* a run has finished although tiles or markers were edited while it ran
C15_Witness ==
  /\ lastOp \in {"walk", "sleep"}
  /\ run.phase = "done" /\ run.edited
  /\ ~isRunning /\ timers = <<>>

----------------------------------------------------------------------------
\* The calls of findPathHelp

\* C16: within one run every position, the start included, is passed to
\* findPathHelp at most once.
C16_ExpandedAtMostOnce == run.phase # "none" => ~run.twice

\* C17: once the call for one candidate has succeeded, no later candidate is
\* recursed into: findPathHelp is not called again after a call has found the
\* Goal tile.
C17_NoCallAfterSuccess == run.phase # "none" => ~run.late

----------------------------------------------------------------------------
\* Edits while a run is in flight

\* C18: no write of a run changes a tile that is Wall when the write is made:
\* a timer callback (the reveal of walk; visit and step after a sleep) leaves
\* every Wall tile Wall.
C18_RunWritesSpareWalls ==
  [][lastOp' \in {"walk", "sleep"}
       => \A p \in Cells(state.tiles) :
            getTile(state.tiles, p) = "Wall" => getTile(state'.tiles, p) = "Wall"]_vars

----------------------------------------------------------------------------
\* Markers and tiles

\* no run has started since the last Reset grid or marker change: none is on
\* record, the grid is not marked used and shows no trace of a run
NoRunSince == run.phase = "none" /\ ~isGridUsed /\ ~Leftover(state.tiles)

\* C19: while no run has started since the last reset or marker change, the
\* tile at an in-bounds Set Player marker is Player and the tile at an
\* in-bounds Set Goal marker is Goal.
C19_MarkersAndTilesAgree ==
  NoRunSince =>
    /\ IsSet(player) /\ InBounds(state.tiles, player[2])
         => getTile(state.tiles, player[2]) = "Player"
    /\ IsSet(goal) /\ InBounds(state.tiles, goal[2])
         => getTile(state.tiles, goal[2]) = "Goal"

----------------------------------------------------------------------------
\* The grid a search starts on

\* C20: at the moment a search starts the grid holds no leftover of an earlier
\* run: no tile of the grid the search starts on is Visited, Path or
\* ReachedGoal.
C20_SearchStartsOnCleanGrid == run.phase # "none" => ~Leftover(run.tiles)

\* Run was accepted on a grid that showed the tiles of an earlier run, and
\* the search started on a grid without them
C20_Witness == run.phase # "none" /\ run.dirty /\ ~Leftover(run.tiles)

----------------------------------------------------------------------------
\* Markers outside the grid

\* C21: setTile at an out-of-bounds position is refused without an error, so
\* an accepted Reset grid completes whatever the markers' positions: it clears
\* the grid-used flag and stamps every Set marker that lies inside the
\* configured dimensions (the Player unless the Goal is Set on the same cell).
C21_ResetStampsMarkersInBounds ==
  [][lastOp' = "ResetGrid" /\ ~isRunning
       => /\ ~isGridUsed'
          /\ Configured(state'.tiles)
          /\ IsSet(goal) /\ goal[2] \in InitCells
               => getTile(state'.tiles, goal[2]) = "Goal"
          /\ IsSet(player) /\ player[2] \in InitCells /\ ~(IsSet(goal) /\ goal[2] = player[2])
               => getTile(state'.tiles, player[2]) = "Player"]_vars

----------------------------------------------------------------------------
\* Two runs

\* the search on record has ended, and the run kept from before it searched
\* the same grid from the same start and got the same shuffle results, no
\* edit falling into either search
SameRunAgain ==
  /\ SearchEnded /\ NoEditInSearch
  /\ prev.valid /\ (variant = "App" \/ ~prev.edited)
  /\ prev.tiles = run.tiles /\ prev.start = run.start /\ prev.draws = run.draws

\* C22: two runs on identical grids that get the same sequence of shuffle
\* results produce the same path and the same visited set, and in part_000
\* leave the same tiles, whatever was run before.
C22_SameDrawsSamePath ==
  SameRunAgain =>
    /\ steps = prev.steps
    /\ visited = prev.visited
    /\ variant = "part_000" => state.tiles = prev.after

\* a search that found a path over at least two shuffles has been repeated
C22_Witness == SameRunAgain /\ Len(run.draws) >= 2 /\ steps # <<>>

====
